---- MODULE Spec2Model ----
(***************************************************************************)
(* Model of the digest pipeline of infostream-backend:                     *)
(*   src/infoStreamDigest.py   InfoStreamDigest (selection, generation,    *)
(*                             delivery, scheduled and immediate batches)  *)
(*   src/html_email/html_email.py   HTMLEmail.send_html_content            *)
(*   src/news/utils.py, src/weather/utils.py, src/stock/utils.py           *)
(*                             the three provider adapters                 *)
(*   src/models.py             the three tables                            *)
(*   src/scheduler.py          the cron and interval triggers              *)
(*   src/main.py               the settings and preferences endpoints      *)
(*                                                                         *)
(* Python values are modelled as follows.  An error message is a string;   *)
(* None is the string None below.  A provider result is a record with a    *)
(* field "type" ("str", "list", "dict"), so that isinstance(x, str) is     *)
(* x.type = "str".  A summary dictionary is a record whose DOMAIN is the   *)
(* set of keys of the dictionary the code builds.                          *)
(***************************************************************************)
EXTENDS Integers, Sequences, FiniteSets, TLC

(***************************************************************************)
(* Bounds of the model.                                                    *)
(***************************************************************************)
\* largest number of rows of table topicAndSchedule in an initial state
MaxRows == 2

\* largest number of joined rows (the due set of a run that selects every
\* row) in an initial state
MaxPairs == 4

\* rows of table topicAndSchedule when the selection is called on its own
MaxSelectRows == 3

\* ids of the rows of table userDetails
Users == {1, 2}

\* how many userSettings rows one user may have: POST /user/setting
\* (src/main.py:407-446) inserts a new row on every call and models.py puts
\* no unique constraint on userSettings.user_id
SettingCounts == {0, 1, 2}

\* number of userSettings rows POST /user/setting is followed up to
MaxSettings == 2

\* values of topicAndSchedule.deliveryTime and of target_time
DeliveryTimes == {"11:00", "14:00"}

None == "None"

\* Python truthiness of an error message (if db_error:, if html_error:)
Truthy(s) == s # None /\ s # ""

VARIABLES
    \* ---- persisted state -------------------------------------------------
    userSettings,       \* user id -> number of rows of table userSettings
    topicAndSchedule,   \* table topicAndSchedule, a sequence of rows
    \* ---- one run of send_emails_batch / send_immediate_email -------------
    pc,                 \* position of the run
    target_time,        \* argument of send_emails_batch
    users,              \* users (scheduled) / users_map (immediate)
    ui, pi,             \* position of the two nested for loops
    emails_sent,        \* emails_sent / total_emails_sent
    emails_failed,      \* emails_failed / total_emails_failed
    errors,             \* errors / all_errors
    all_schedule_ids_to_reset,
    result,             \* the dictionary the run returned
    \* ---- observation of the run (history, not read by the code) ----------
    rows0,              \* topicAndSchedule when the run started
    job,                \* the method running or last run
    attempts,           \* the calls of send_email_to_user, in order
    dbops,              \* db statements issued after selection, in order
    db_failure,         \* the db statement of the run that raised, or None
    \* ---- one call of _generate_html / send_email_to_user on its own ------
    env,                \* what the collaborators answer
    out,                \* what the call returned
    \* ---- the scheduler of src/scheduler.py and the application ----------
    scheduler_running,  \* scheduler.running
    scheduler_jobs,     \* ids of the jobs registered with the scheduler
    instances,          \* job id -> runs of the job executing in the pool
    app,                \* lifespan: "starting", "serving" or "shutdown"
    \* ---- observation across runs (history, not read by the code) --------
    last_run            \* how the previous run ended and what it did

dbvars  == <<userSettings, topicAndSchedule>>
runvars == <<pc, target_time, users, ui, pi, emails_sent, emails_failed,
             errors, all_schedule_ids_to_reset, result>>
obsvars == <<rows0, job, attempts, dbops, db_failure>>
genvars == <<env, out>>
schedvars == <<scheduler_running, scheduler_jobs, instances, app>>
vars    == <<dbvars, runvars, obsvars, genvars, schedvars, last_run>>

(***************************************************************************)
(* Sequences.                                                              *)
(***************************************************************************)
RECURSIVE Flatten(_)
Flatten(ss) == IF ss = <<>> THEN <<>> ELSE Head(ss) \o Flatten(Tail(ss))

Range(s) == {s[k] : k \in 1..Len(s)}

\* number of positions of s whose element satisfies Test
Count(s, Test(_)) == Cardinality({k \in 1..Len(s) : Test(s[k])})

(***************************************************************************)
(* What the collaborators of one (user, topic) pair answer.  The three     *)
(* providers, the template engine and the mail API are outside the         *)
(* repository; each field names one behaviour the adapter code below       *)
(* distinguishes.                                                          *)
(***************************************************************************)
NewsAnswers     == {"articles", "api_error", "no_articles", "no_valid_articles"}
WeatherAnswers  == {"ok", "timeout", "api_error", "KeyError", "RequestException"}
StockAnswers    == {"ok", "empty", "IndexError"}
RenderAnswers   == {"ok", "TemplateNotFound", "FileNotFoundError", "KeyError",
                    "UndefinedError"}
NotifierAnswers == {"201", "no_credentials", "non_201", "exception"}

Envs == [news : NewsAnswers, weather : WeatherAnswers, stock : StockAnswers,
         render : RenderAnswers, notifier : NotifierAnswers]

Str(s)    == [type |-> "str", val |-> s]
Raise(ex) == [type |-> "raise", exc |-> ex]

\* get_top_10_news: an error string, or a non-empty list of articles
get_top_10_news(answer) ==
    CASE answer = "api_error"         -> Str("NewsAPI message")
      [] answer = "no_articles"       -> Str("No articles found for this topic")
      [] answer = "no_valid_articles" ->
             Str("Could not fetch any valid articles. Please try again later.")
      [] OTHER                        -> [type |-> "list", len |-> 1]

\* get_weather_api: only ConnectTimeout is caught; a response without the
\* expected keys raises KeyError, any other transport fault propagates
get_weather_api(answer) ==
    CASE answer = "timeout"   -> Str("Weather API request timed Out. Try again Later.")
      [] answer = "api_error" -> Str("OpenWeather message")
      [] answer = "KeyError"  -> Raise("KeyError")
      [] answer = "RequestException" -> Raise("RequestException")
      [] OTHER                -> [type |-> "dict",
                                  keys |-> {"weather_info", "weather_icon_url"}]

\* get_stock_api: an error string as soon as one market has no data;
\* iloc[-2] on a single-row frame raises IndexError
get_stock_api(answer) ==
    CASE answer = "empty"      -> Str("Stock data not available, Try again later.")
      [] answer = "IndexError" -> Raise("IndexError")
      [] OTHER                 -> [type |-> "list", len |-> 5]

\* rendered_html: None, or the document and the sources it was built from
NoHtml == [type |-> "None"]

Document(news_data, weather_data, stock_data) ==
    [type    |-> "html",
     sources |-> (IF news_data.type = "list" THEN {"news"} ELSE {})
                 \cup (IF weather_data.type = "dict" THEN {"weather"} ELSE {})
                 \cup (IF stock_data.type = "list" THEN {"stock"} ELSE {})]

\* env.get_template + template.render: the document, or an exception.
\* jinja2.TemplateNotFound derives from IOError, LookupError and
\* TemplateError: it is neither a FileNotFoundError nor a KeyError.
\* weather_data['weather_info'] on a string raises TypeError.
render_template(answer, news_data, weather_data, stock_data) ==
    IF weather_data.type # "dict" THEN Raise("TypeError")
    ELSE IF answer = "ok"
    THEN [type |-> "ok", val |-> Document(news_data, weather_data, stock_data)]
    ELSE Raise(answer)

\* the three except clauses of _generate_html, in order
generate_html_except(exc) ==
    IF exc = "FileNotFoundError"
    THEN "Template file not found: " \o exc
    ELSE IF exc = "KeyError"
    THEN "Missing required data field: " \o exc
    ELSE "Error generating HTML: " \o exc

\* a generation that has asked every collaborator before it looks at an
\* answer
GenFailed_all_fetched(msgOrExc, isExc, made) ==
    [html  |-> NoHtml,
     error |-> IF isExc THEN generate_html_except(msgOrExc) ELSE msgOrExc,
     calls |-> <<"news", "weather", "stock", "render">>]

GenFailed(msgOrExc, isExc, made) ==
    [html  |-> NoHtml,
     error |-> IF isExc THEN generate_html_except(msgOrExc) ELSE msgOrExc,
     calls |-> made]

\* a _generate_html that forgets the isinstance check of stock_data
generate_html_no_stock_check(e) ==
    LET news_data    == get_top_10_news(e.news)
        weather_data == get_weather_api(e.weather)
        stock_data   == get_stock_api(e.stock)
        rendered     == render_template(e.render, news_data, weather_data,
                                        stock_data)
    IN  IF news_data.type = "str"
        THEN GenFailed("News API error: " \o news_data.val, FALSE, <<"news">>)
        ELSE IF news_data.len = 0
        THEN GenFailed("No news articles available", FALSE, <<"news">>)
        ELSE IF weather_data.type = "raise"
        THEN GenFailed(weather_data.exc, TRUE, <<"news", "weather">>)
        ELSE IF weather_data.type = "str"
        THEN GenFailed("Weather API error: " \o weather_data.val, FALSE,
                       <<"news", "weather">>)
        ELSE IF stock_data.type = "raise"
        THEN GenFailed(stock_data.exc, TRUE, <<"news", "weather", "stock">>)
        ELSE IF rendered.type = "raise"
        THEN GenFailed(rendered.exc, TRUE,
                       <<"news", "weather", "stock", "render">>)
        ELSE [html  |-> rendered.val, error |-> None,
              calls |-> <<"news", "weather", "stock", "render">>]

\* InfoStreamDigest._generate_html: (rendered_html, error_message) and the
\* collaborators it called
generate_html(e) ==
    LET news_data    == get_top_10_news(e.news)
        weather_data == get_weather_api(e.weather)
        stock_data   == get_stock_api(e.stock)
        rendered     == render_template(e.render, news_data, weather_data,
                                        stock_data)
    IN  IF news_data.type = "str"
        THEN GenFailed("News API error: " \o news_data.val, FALSE, <<"news">>)
        ELSE IF news_data.len = 0
        THEN GenFailed("No news articles available", FALSE, <<"news">>)
        ELSE IF weather_data.type = "raise"
        THEN GenFailed(weather_data.exc, TRUE, <<"news", "weather">>)
        ELSE IF weather_data.type = "str"
        THEN GenFailed("Weather API error: " \o weather_data.val, FALSE,
                       <<"news", "weather">>)
        ELSE IF stock_data.type = "raise"
        THEN GenFailed(stock_data.exc, TRUE, <<"news", "weather", "stock">>)
        ELSE IF stock_data.type = "str"
        THEN GenFailed("Stock API error: " \o stock_data.val, FALSE,
                       <<"news", "weather", "stock">>)
        ELSE IF rendered.type = "raise"
        THEN GenFailed(rendered.exc, TRUE,
                       <<"news", "weather", "stock", "render">>)
        ELSE [html  |-> rendered.val, error |-> None,
              calls |-> <<"news", "weather", "stock", "render">>]

\* HTMLEmail.send_html_content: (message, error)
send_html_content(answer) ==
    CASE answer = "no_credentials" ->
             [sent |-> None, error |-> "Brevo credentials not configured"]
      [] answer = "201" ->
             [sent |-> "Email sent successfully", error |-> None]
      [] answer = "non_201" ->
             [sent |-> None, error |-> "Brevo error: status - text"]
      [] OTHER ->
             [sent |-> None, error |-> "Failed to send email: exception"]

\* a send_email_to_user that does not return on html_error
send_email_to_user_no_short_circuit(e) ==
    LET gen  == generate_html(e)
        mail == send_html_content(e.notifier)
    IN  IF ~Truthy(mail.sent)
        THEN [success |-> FALSE, error |-> mail.error,
              calls |-> Append(gen.calls, "notifier"),
              html_error |-> gen.error, email_error |-> mail.error]
        ELSE [success |-> ~Truthy(gen.error), error |-> gen.error,
              calls |-> Append(gen.calls, "notifier"),
              html_error |-> gen.error, email_error |-> mail.error]

\* InfoStreamDigest.send_email_to_user: (success, error_message), the
\* collaborators it called and its locals html_error and email_error
send_email_to_user(e) ==
    LET gen  == generate_html(e)
        mail == send_html_content(e.notifier)
    IN  IF Truthy(gen.error)
        THEN [success |-> FALSE, error |-> gen.error, calls |-> gen.calls,
              html_error |-> gen.error, email_error |-> None]
        ELSE IF ~Truthy(mail.sent)
        THEN [success |-> FALSE, error |-> mail.error,
              calls |-> Append(gen.calls, "notifier"),
              html_error |-> gen.error, email_error |-> mail.error]
        ELSE [success |-> TRUE, error |-> None,
              calls |-> Append(gen.calls, "notifier"),
              html_error |-> gen.error, email_error |-> mail.error]

(***************************************************************************)
(* The tables (src/models.py).  userDetails holds one row per element of   *)
(* Users.  A row of topicAndSchedule is a record                           *)
(*   [news_id, user_id, newsTopic, deliveryTime, isImmediate, isScheduled] *)
(***************************************************************************)
Topics == <<"technology", "sports", "business", "health">>

\* newsTopic of the row created with primary key id
TopicOf(id) == Topics[((id - 1) % Len(Topics)) + 1]

Email(u) == "user" \o ToString(u) \o "@example.com"

\* columns of the k-th userSettings row of user u
City(u, k)       == "city" \o ToString(u) \o "." \o ToString(k)
NewsApi(u, k)    == "newsApi" \o ToString(u) \o "." \o ToString(k)
WeatherApi(u, k) == "weatherApi" \o ToString(u) \o "." \o ToString(k)

RowsWithId(id) ==
    [news_id : {id}, user_id : Users, newsTopic : {TopicOf(id)},
     deliveryTime : DeliveryTimes, isImmediate : BOOLEAN,
     isScheduled : {id % 2 = 1}]

\* the tables of at most n rows, primary keys 1..n in insertion order
Tables(n) ==
    UNION {{t \in [1..m -> UNION {RowsWithId(id) : id \in 1..m}] :
              \A id \in 1..m : t[id].news_id = id} : m \in 0..n}

\* userDetails JOIN userSettings JOIN topicAndSchedule: one joined row per
\* (topicAndSchedule row, userSettings row of its user); no ORDER BY, the
\* rows come in primary-key order of topicAndSchedule
JoinedRow(r, k) ==
    [id |-> r.user_id, email |-> Email(r.user_id),
     city |-> City(r.user_id, k), newsApi |-> NewsApi(r.user_id, k),
     weatherApi |-> WeatherApi(r.user_id, k),
     news_id |-> r.news_id, newsTopic |-> r.newsTopic,
     deliveryTime |-> r.deliveryTime, isImmediate |-> r.isImmediate,
     isScheduled |-> r.isScheduled]

Joined(settings, table) ==
    Flatten([n \in 1..Len(table) |->
                [k \in 1..settings[table[n].user_id] |-> JoinedRow(table[n], k)]])

\* position of the group of user uid in an insertion-ordered dict, 0 if absent
Position(map, uid) ==
    IF \E n \in 1..Len(map) : map[n].id = uid
    THEN CHOOSE n \in 1..Len(map) : map[n].id = uid
    ELSE 0

\* a filter that also requires isScheduled
batch_filter_scheduled_only(row, target) ==
    (Truthy(target) => row.deliveryTime = target) /\ row.isScheduled

\* a filter that lets every row through
batch_filter_any_time(row, target) == TRUE

\* a filter that drops a row whose digest the previous run delivered
batch_filter_not_yet_sent(row, target) ==
    /\ Truthy(target) => row.deliveryTime = target
    /\ ~(/\ last_run.ended = "returned"
         /\ \E n \in 1..Len(last_run.attempts) :
               /\ last_run.attempts[n].user_email = row.email
               /\ last_run.attempts[n].news_topic = row.newsTopic
               /\ last_run.attempts[n].success)

\* get_users_to_notify, lines 67-71: the optional deliveryTime filter
batch_filter(row, target) ==
    Truthy(target) => row.deliveryTime = target

\* a grouping that opens a group for every row
group_by_user_per_row(rows, user_data_map) ==
    [n \in 1..Len(rows) |->
        [id |-> rows[n].id, email |-> rows[n].email, city |-> rows[n].city,
         news_api_key |-> rows[n].newsApi,
         weather_api_key |-> rows[n].weatherApi,
         news_preferences |->
             <<[news_topic |-> rows[n].newsTopic,
                delivery_time |-> rows[n].deliveryTime]>>]]

\* get_users_to_notify, lines 79-102: group the joined rows by user id
RECURSIVE group_by_user(_, _)
group_by_user(rows, user_data_map) ==
    IF rows = <<>> THEN user_data_map
    ELSE LET row  == Head(rows)
             seen == Position(user_data_map, row.id)
             map1 == IF seen = 0
                     THEN Append(user_data_map,
                                 [id |-> row.id, email |-> row.email,
                                  city |-> row.city,
                                  news_api_key |-> row.newsApi,
                                  weather_api_key |-> row.weatherApi,
                                  news_preferences |-> <<>>])
                     ELSE user_data_map
             n    == Position(map1, row.id)
         IN  group_by_user(Tail(rows),
                 [map1 EXCEPT ![n].news_preferences =
                     Append(@, [news_topic |-> row.newsTopic,
                                delivery_time |-> row.deliveryTime])])

DbErrorText == "OperationalError"

\* InfoStreamDigest.get_users_to_notify: (user_data_list, error_message);
\* db is "ok", or "raise" when the query raises
get_users_to_notify(settings, table, target, db) ==
    IF db = "raise"
    THEN [user_data |-> <<>>,
          error |-> "Database error while fetching users: " \o DbErrorText]
    ELSE LET results == SelectSeq(Joined(settings, table),
                                  LAMBDA row : batch_filter(row, target))
         IN  IF results = <<>>
             THEN [user_data |-> <<>>, error |-> None]
             ELSE [user_data |-> group_by_user(results, <<>>), error |-> None]

\* a filter that also asks for a row to be scheduled
immediate_filter_scheduled(row) == row.isImmediate = TRUE /\ row.isScheduled

\* send_immediate_email, lines 364-380: the rows with isImmediate = True
immediate_filter(row) == row.isImmediate = TRUE

\* send_immediate_email, lines 390-407: group the joined rows by user id
RECURSIVE group_immediate(_, _)
group_immediate(rows, users_map) ==
    IF rows = <<>> THEN users_map
    ELSE LET row  == Head(rows)
             seen == Position(users_map, row.id)
             map1 == IF seen = 0
                     THEN Append(users_map,
                                 [id |-> row.id, email |-> row.email,
                                  city |-> row.city,
                                  news_api_key |-> row.newsApi,
                                  weather_api_key |-> row.weatherApi,
                                  news_preference |-> <<>>])
                     ELSE users_map
             n    == Position(map1, row.id)
         IN  group_immediate(Tail(rows),
                 [map1 EXCEPT ![n].news_preference =
                     Append(@, [schedule_id |-> row.news_id,
                                news_topic |-> row.newsTopic])])

(***************************************************************************)
(* The two batch methods.  A run is idle, in its loop over the (user,      *)
(* topic) pairs, about to build its result, or done with result set.       *)
(***************************************************************************)
NoResult == [status |-> "none"]

AllOk == [news |-> "articles", weather |-> "ok", stock |-> "ok",
          render |-> "ok", notifier |-> "201"]

\* the collaborator behaviours the batch runs are explored with: all fine,
\* generation fails, delivery fails
BatchEnvs == {AllOk, [AllOk EXCEPT !.news = "api_error"],
              [AllOk EXCEPT !.notifier = "non_201"]}

\* the topic entries of one group (news_preferences in get_users_to_notify,
\* news_preference in send_immediate_email)
Prefs(user) ==
    IF "news_preferences" \in DOMAIN user
    THEN user.news_preferences ELSE user.news_preference

\* the (user, topic) entries of a grouped selection in loop order, as
\* <<user index, topic index>>
Pairs(us) ==
    Flatten([i \in 1..Len(us) |-> [j \in 1..Len(Prefs(us[i])) |-> <<i, j>>]])

\* a loop that leaves a user's remaining topics out
loop_next_break(us, i, j) == <<i + 1, 1>>

\* a loop that returns after its first pair
loop_next_return(us, i, j) == <<Len(us) + 1, 1>>

\* for user in users: for preference in user[...]: the position after <<i, j>>
loop_next(us, i, j) ==
    IF j < Len(Prefs(us[i])) THEN <<i, j + 1>> ELSE <<i + 1, 1>>

\* a status that looks at the number sent
batch_status_by_sent(sent, failed) ==
    IF sent > 0 THEN "success" ELSE "partial_success"

\* a status that reports an error when nothing was sent
batch_status_error_when_none_sent(sent, failed) ==
    IF failed = 0 THEN "success"
    ELSE IF sent > 0 THEN "partial_success"
    ELSE "error"

\* send_emails_batch, line 329
batch_status(sent, failed) ==
    IF failed = 0 THEN "success" ELSE "partial_success"

\* send_immediate_email, lines 465-470
immediate_status(sent, failed) ==
    IF failed = 0 THEN "success"
    ELSE IF sent > 0 THEN "partial_success"
    ELSE "error"

\* a result for the empty due set that reports an error
batch_empty_result_error ==
    [status |-> "error", message |-> "No users to notify", total_users |-> 0,
     emails_sent |-> 0, emails_failed |-> 0, errors |-> <<>>]

\* send_emails_batch, lines 284-292
batch_empty_result ==
    [status |-> "success", message |-> "No users to notify", total_users |-> 0,
     emails_sent |-> 0, emails_failed |-> 0, errors |-> <<>>]

\* send_emails_batch, lines 274-282
batch_error_result(db_error) ==
    [status |-> "error", message |-> db_error, total_users |-> 0,
     emails_sent |-> 0, emails_failed |-> 0, errors |-> <<>>]

\* send_immediate_email, lines 382-388
immediate_empty_result ==
    [status |-> "error",
     message |-> "User not found or not configured for immediate emails",
     emails_sent |-> 0, emails_failed |-> 0]

\* send_immediate_email, lines 484-494: the except branch
immediate_except_result(exc) ==
    [status |-> "error",
     message |-> "Error sending immediate emails: " \o exc,
     total_users |-> 0, emails_sent |-> 0, emails_failed |-> 0,
     errors |-> <<exc>>]

\* an update without its WHERE clause
bulk_reset_every_row(table, ids) ==
    [n \in DOMAIN table |-> [table[n] EXCEPT !.isImmediate = FALSE]]

\* send_immediate_email, lines 455-459:
\* UPDATE topicAndSchedule SET isImmediate = 0 WHERE news_id IN (ids)
bulk_reset(table, ids) ==
    [n \in DOMAIN table |->
        IF table[n].news_id \in ids
        THEN [table[n] EXCEPT !.isImmediate = FALSE]
        ELSE table[n]]

\* start_scheduler, lines 50-106: the ids of the six digest jobs and of the
\* interval job
JobIds == {"digest_11am", "digest_2pm", "digest_5pm", "digest_7pm",
           "digest_9pm", "digest_11pm", "check_immediate"}

\* lambdas whose arguments are one slot late
JobTarget_one_late ==
    [digest_11am |-> "14:00", digest_2pm |-> "17:00",
     digest_5pm |-> "19:00", digest_7pm |-> "21:00",
     digest_9pm |-> "23:00", digest_11pm |-> "11:00"]

\* the argument the lambda of a digest job passes to run_digest_job
JobTarget == [digest_11am |-> "11:00", digest_2pm |-> "14:00",
              digest_5pm |-> "17:00", digest_7pm |-> "19:00",
              digest_9pm |-> "21:00", digest_11pm |-> "23:00"]

\* CronTrigger(hour=..., minute=...) of each digest job
CronTrigger ==
    [digest_11am |-> [hour |-> 11, minute |-> 0],
     digest_2pm  |-> [hour |-> 14, minute |-> 0],
     digest_5pm  |-> [hour |-> 17, minute |-> 0],
     digest_7pm  |-> [hour |-> 19, minute |-> 0],
     digest_9pm  |-> [hour |-> 21, minute |-> 0],
     digest_11pm |-> [hour |-> 23, minute |-> 0]]

\* the job that runs method with target time t
JobOf(method, t) ==
    IF method = "send_immediate_email" THEN "check_immediate"
    ELSE CHOOSE j \in DOMAIN JobTarget : JobTarget[j] = t

\* add_job without max_instances: the scheduler's default of one running
\* instance per job id
max_instances == 1

NoInstances == [j \in JobIds |-> 0]

\* scheduler = BackgroundScheduler() (line 10), before start_scheduler
NoRun == [ended |-> "none"]

NotStarted ==
    /\ last_run = NoRun
    /\ scheduler_running = FALSE
    /\ scheduler_jobs = {}
    /\ instances = NoInstances
    /\ app = "starting"

\* after start_scheduler returned in lifespan
Started ==
    /\ scheduler_running = TRUE
    /\ scheduler_jobs = JobIds
    /\ instances = NoInstances
    /\ app = "serving"

\* the scheduler submits a due job to its pool unless the job already has
\* max_instances runs executing; the run opens its session and calls method
StartRun(method, t) ==
    /\ pc = "idle"
    /\ scheduler_running
    /\ JobOf(method, t) \in scheduler_jobs
    /\ instances[JobOf(method, t)] < max_instances
    /\ instances' = [instances EXCEPT ![JobOf(method, t)] = @ + 1]
    /\ UNCHANGED <<scheduler_running, scheduler_jobs, app, last_run>>
    /\ job' = method
    /\ target_time' = t
    /\ rows0' = topicAndSchedule
    /\ ui' = 1 /\ pi' = 1
    /\ emails_sent' = 0 /\ emails_failed' = 0
    /\ errors' = <<>>
    /\ all_schedule_ids_to_reset' = <<>>
    /\ attempts' = <<>>
    /\ dbops' = <<>>

\* send_emails_batch, lines 269-292: selection and the two early returns
BatchStart(t, db) ==
    /\ StartRun("send_emails_batch", t)
    /\ db_failure' = IF db = "raise" THEN "select" ELSE None
    /\ LET sel == get_users_to_notify(userSettings, topicAndSchedule, t, db)
       IN  IF Truthy(sel.error)
           THEN /\ result' = batch_error_result(sel.error)
                /\ users' = <<>>
                /\ pc' = "done"
           ELSE IF sel.user_data = <<>>
           THEN /\ result' = batch_empty_result
                /\ users' = <<>>
                /\ pc' = "done"
           ELSE /\ result' = NoResult
                /\ users' = sel.user_data
                /\ pc' = "batch_loop"
    /\ UNCHANGED <<dbvars, genvars>>

\* send_emails_batch, lines 299-325: one iteration of the inner loop
BatchPair(e) ==
    /\ pc = "batch_loop"
    /\ LET user == users[ui]
           preference == user.news_preferences[pi]
           sent == send_email_to_user(e)
           next == loop_next(users, ui, pi)
       IN  /\ attempts' = Append(attempts,
                  [user_email |-> user.email,
                   news_topic |-> preference.news_topic,
                   city_name |-> user.city,
                   news_api_key |-> user.news_api_key,
                   weather_api_key |-> user.weather_api_key,
                   success |-> sent.success, error |-> sent.error,
                   calls |-> sent.calls])
           /\ IF sent.success
              THEN /\ emails_sent' = emails_sent + 1
                   /\ UNCHANGED <<emails_failed, errors>>
              ELSE /\ emails_failed' = emails_failed + 1
                   /\ errors' = Append(errors,
                          [user_email |-> user.email,
                           news_topic |-> preference.news_topic,
                           error |-> sent.error])
                   /\ UNCHANGED emails_sent
           /\ ui' = next[1] /\ pi' = next[2]
           /\ pc' = IF next[1] > Len(users) THEN "batch_return" ELSE "batch_loop"
    /\ UNCHANGED <<dbvars, genvars, schedvars, last_run, target_time, users,
                   all_schedule_ids_to_reset, result, rows0, job, dbops,
                   db_failure>>

\* send_emails_batch, lines 327-341
BatchReturn ==
    /\ pc = "batch_return"
    /\ result' = [status |-> batch_status(emails_sent, emails_failed),
                  total_users |-> Len(users),
                  emails_sent |-> emails_sent,
                  emails_failed |-> emails_failed,
                  errors |-> errors]
    /\ pc' = "done"
    /\ UNCHANGED <<dbvars, genvars, schedvars, last_run, target_time, users,
                   ui, pi, emails_sent, emails_failed, errors,
                   all_schedule_ids_to_reset, obsvars>>

\* send_immediate_email, lines 362-414: selection, the early return and the
\* except branch of a failed query
ImmediateStart(db) ==
    /\ StartRun("send_immediate_email", None)
    /\ db_failure' = IF db = "raise" THEN "select" ELSE None
    /\ LET user_data == SelectSeq(Joined(userSettings, topicAndSchedule),
                                  immediate_filter)
       IN  IF db = "raise"
           THEN /\ result' = immediate_except_result(DbErrorText)
                /\ users' = <<>>
                /\ pc' = "done"
           ELSE IF user_data = <<>>
           THEN /\ result' = immediate_empty_result
                /\ users' = <<>>
                /\ pc' = "done"
           ELSE /\ result' = NoResult
                /\ users' = group_immediate(user_data, <<>>)
                /\ pc' = "immediate_loop"
    /\ UNCHANGED <<dbvars, genvars>>

\* an iteration that clears and commits the flag of a row as soon as its
\* mail is sent
ImmediatePair_clear_at_once(e) ==
    /\ pc = "immediate_loop"
    /\ LET user_info == users[ui]
           pref == user_info.news_preference[pi]
           sent == send_email_to_user(e)
           next == loop_next(users, ui, pi)
       IN  /\ attempts' = Append(attempts,
                  [user_email |-> user_info.email,
                   news_topic |-> pref.news_topic,
                   city_name |-> user_info.city,
                   news_api_key |-> user_info.news_api_key,
                   weather_api_key |-> user_info.weather_api_key,
                   schedule_id |-> pref.schedule_id,
                   success |-> sent.success, error |-> sent.error,
                   calls |-> sent.calls])
           /\ IF sent.success
              THEN /\ emails_sent' = emails_sent + 1
                   /\ all_schedule_ids_to_reset' =
                          Append(all_schedule_ids_to_reset, pref.schedule_id)
                   /\ topicAndSchedule' =
                          [topicAndSchedule EXCEPT
                              ![pref.schedule_id].isImmediate = FALSE]
                   /\ UNCHANGED <<emails_failed, errors>>
              ELSE /\ emails_failed' = emails_failed + 1
                   /\ errors' = Append(errors,
                          [news_topic |-> pref.news_topic,
                           error |-> sent.error])
                   /\ UNCHANGED <<emails_sent, all_schedule_ids_to_reset,
                                  topicAndSchedule>>
           /\ ui' = next[1] /\ pi' = next[2]
           /\ pc' = IF next[1] > Len(users)
                    THEN "immediate_reset" ELSE "immediate_loop"
    /\ UNCHANGED <<userSettings, genvars, schedvars, last_run, target_time,
                   users, result, rows0, job, dbops, db_failure>>

\* send_immediate_email, lines 417-451: one iteration of the inner loop
ImmediatePair(e) ==
    /\ pc = "immediate_loop"
    /\ LET user_info == users[ui]
           pref == user_info.news_preference[pi]
           sent == send_email_to_user(e)
           next == loop_next(users, ui, pi)
       IN  /\ attempts' = Append(attempts,
                  [user_email |-> user_info.email,
                   news_topic |-> pref.news_topic,
                   city_name |-> user_info.city,
                   news_api_key |-> user_info.news_api_key,
                   weather_api_key |-> user_info.weather_api_key,
                   schedule_id |-> pref.schedule_id,
                   success |-> sent.success, error |-> sent.error,
                   calls |-> sent.calls])
           /\ IF sent.success
              THEN /\ emails_sent' = emails_sent + 1
                   /\ all_schedule_ids_to_reset' =
                          Append(all_schedule_ids_to_reset, pref.schedule_id)
                   /\ UNCHANGED <<emails_failed, errors>>
              ELSE /\ emails_failed' = emails_failed + 1
                   /\ errors' = Append(errors,
                          [news_topic |-> pref.news_topic,
                           error |-> sent.error])
                   /\ UNCHANGED <<emails_sent, all_schedule_ids_to_reset>>
           /\ ui' = next[1] /\ pi' = next[2]
           /\ pc' = IF next[1] > Len(users)
                    THEN "immediate_reset" ELSE "immediate_loop"
    /\ UNCHANGED <<dbvars, genvars, schedvars, last_run, target_time, users,
                   result, rows0, job, dbops, db_failure>>

ImmediateResult ==
    [status |-> immediate_status(emails_sent, emails_failed),
     message |-> "Processed " \o ToString(Len(users)) \o " user(s): sent "
                 \o ToString(emails_sent) \o " email(s), "
                 \o ToString(emails_failed) \o " failed",
     total_users |-> Len(users),
     emails_sent |-> emails_sent,
     emails_failed |-> emails_failed,
     errors |-> errors]

\* send_immediate_email, lines 453-494: the bulk update, the commit, the
\* status and the result; db is "ok", or names the statement that raises.
\* A transaction whose update or commit raised is not persisted (the
\* caller closes the session).
ImmediateReset(db) ==
    /\ pc = "immediate_reset"
    /\ LET ids == Range(all_schedule_ids_to_reset)
           update == [op |-> "update", ids |-> ids]
           commit == [op |-> "commit", ids |-> {}]
       IN  IF all_schedule_ids_to_reset = <<>>
           THEN /\ dbops' = dbops
                /\ db_failure' = db_failure
                /\ topicAndSchedule' = topicAndSchedule
                /\ result' = ImmediateResult
           ELSE IF db = "update_raises"
           THEN /\ dbops' = dbops \o <<update>>
                /\ db_failure' = "update"
                /\ topicAndSchedule' = topicAndSchedule
                /\ result' = immediate_except_result(DbErrorText)
           ELSE IF db = "commit_raises"
           THEN /\ dbops' = dbops \o <<update, commit>>
                /\ db_failure' = "commit"
                /\ topicAndSchedule' = topicAndSchedule
                /\ result' = immediate_except_result(DbErrorText)
           ELSE /\ dbops' = dbops \o <<update, commit>>
                /\ db_failure' = db_failure
                /\ topicAndSchedule' = bulk_reset(topicAndSchedule, ids)
                /\ result' = ImmediateResult
    /\ pc' = "done"
    /\ UNCHANGED <<userSettings, genvars, schedvars, last_run, target_time,
                   users, ui, pi, emails_sent, emails_failed, errors,
                   all_schedule_ids_to_reset, rows0, job, attempts>>

(***************************************************************************)
(* The batch specification: any tables of the bounded size, then runs of   *)
(* the two methods one after the other.                                    *)
(***************************************************************************)
NoOut == [fn |-> "none"]

Idle ==
    /\ pc = "idle"
    /\ job = "none"
    /\ target_time = None
    /\ users = <<>>
    /\ ui = 1 /\ pi = 1
    /\ emails_sent = 0 /\ emails_failed = 0
    /\ errors = <<>>
    /\ all_schedule_ids_to_reset = <<>>
    /\ result = NoResult
    /\ rows0 = topicAndSchedule
    /\ attempts = <<>>
    /\ dbops = <<>>
    /\ db_failure = None

Init ==
    /\ userSettings \in [Users -> SettingCounts]
    /\ topicAndSchedule \in Tables(MaxRows)
    /\ Len(Joined(userSettings, topicAndSchedule)) <= MaxPairs
    /\ Idle
    /\ env = AllOk
    /\ out = NoOut
    /\ Started
    /\ last_run = NoRun

\* run_digest_job / check_immediate_emails (src/scheduler.py:12-42): the job
\* logs the result and closes its session; the next job starts afresh
EndRun ==
    /\ pc' = "idle"
    /\ job' = "none"
    /\ target_time' = None
    /\ users' = <<>>
    /\ ui' = 1 /\ pi' = 1
    /\ emails_sent' = 0 /\ emails_failed' = 0
    /\ errors' = <<>>
    /\ all_schedule_ids_to_reset' = <<>>
    /\ result' = NoResult
    /\ rows0' = topicAndSchedule
    /\ attempts' = <<>>
    /\ dbops' = <<>>
    /\ db_failure' = None
    /\ instances' = [instances EXCEPT ![JobOf(job, target_time)] = @ - 1]
    /\ UNCHANGED <<dbvars, genvars, scheduler_running, scheduler_jobs, app>>

JobReturn ==
    /\ pc = "done"
    /\ EndRun
    /\ UNCHANGED last_run

Next ==
    \/ \E t \in DeliveryTimes, db \in {"ok", "raise"} : BatchStart(t, db)
    \/ \E e \in BatchEnvs : BatchPair(e)
    \/ BatchReturn
    \/ \E db \in {"ok", "raise"} : ImmediateStart(db)
    \/ \E e \in BatchEnvs : ImmediatePair(e)
    \/ \E db \in {"ok", "update_raises", "commit_raises"} : ImmediateReset(db)
    \/ JobReturn

Spec == Init /\ [][Next]_vars

(***************************************************************************)
(* The pair specification: one call of _generate_html or of                *)
(* send_email_to_user under every combination of collaborator answers.     *)
(***************************************************************************)
PairInit ==
    /\ userSettings = [u \in Users |-> 0]
    /\ topicAndSchedule = <<>>
    /\ Idle
    /\ env \in Envs
    /\ out = NoOut
    /\ NotStarted

CallGenerateHtml ==
    /\ out = NoOut
    /\ LET gen == generate_html(env)
       IN  out' = [fn |-> "_generate_html", html |-> gen.html,
                   error |-> gen.error, calls |-> gen.calls]
    /\ UNCHANGED <<dbvars, runvars, obsvars, env, schedvars, last_run>>

CallSendEmailToUser ==
    /\ out = NoOut
    /\ LET sent == send_email_to_user(env)
       IN  out' = [fn |-> "send_email_to_user", success |-> sent.success,
                   error |-> sent.error, calls |-> sent.calls,
                   html_error |-> sent.html_error,
                   email_error |-> sent.email_error]
    /\ UNCHANGED <<dbvars, runvars, obsvars, env, schedvars, last_run>>

PairNext == CallGenerateHtml \/ CallSendEmailToUser

PairSpec == PairInit /\ [][PairNext]_vars

(***************************************************************************)
(* The selection specification: one call of get_users_to_notify, or of the *)
(* selection and grouping of send_immediate_email, on any tables.          *)
(***************************************************************************)
TargetTimes == DeliveryTimes \cup {None, ""}

SelectInit ==
    /\ userSettings \in [Users -> SettingCounts]
    /\ topicAndSchedule \in Tables(MaxSelectRows)
    /\ Idle
    /\ env = AllOk
    /\ out = NoOut
    /\ NotStarted

CallGetUsersToNotify(t, db) ==
    /\ out = NoOut
    /\ target_time' = t
    /\ LET sel == get_users_to_notify(userSettings, topicAndSchedule, t, db)
       IN  out' = [fn |-> "get_users_to_notify", db |-> db,
                   user_data |-> sel.user_data, error |-> sel.error]
    /\ UNCHANGED <<dbvars, pc, users, ui, pi, emails_sent, emails_failed,
                   errors, all_schedule_ids_to_reset, result, obsvars, env,
                   schedvars, last_run>>

\* send_immediate_email, lines 364-407, when the query does not raise
CallImmediateSelection ==
    /\ out = NoOut
    /\ LET user_data == SelectSeq(Joined(userSettings, topicAndSchedule),
                                  immediate_filter)
       IN  out' = [fn |-> "immediate_selection", db |-> "ok",
                   user_data |-> group_immediate(user_data, <<>>),
                   error |-> None]
    /\ UNCHANGED <<dbvars, runvars, obsvars, env, schedvars, last_run>>

SelectNext ==
    \/ \E t \in TargetTimes, db \in {"ok", "raise"} : CallGetUsersToNotify(t, db)
    \/ CallImmediateSelection

SelectSpec == SelectInit /\ [][SelectNext]_vars

(***************************************************************************)
(* The tick specification: the one-minute interval job runs again and      *)
(* again on tables with flagged rows, each run observed when it ends.  The *)
(* crash specification adds the process stopping in the middle of a run.   *)
(***************************************************************************)
TickEnvs == {AllOk, [AllOk EXCEPT !.notifier = "non_201"]}

TickTables ==
    {t \in Tables(MaxRows) : \A n \in 1..Len(t) : t[n].deliveryTime = "11:00"}

TickInit ==
    /\ userSettings \in [Users -> SettingCounts]
    /\ topicAndSchedule \in TickTables
    /\ Len(Joined(userSettings, topicAndSchedule)) <= MaxPairs
    /\ Idle
    /\ env = AllOk
    /\ out = NoOut
    /\ Started
    /\ last_run = NoRun

\* what is known of a run when it ends
Observed(ended) ==
    [ended |-> ended, job |-> job, target_time |-> target_time,
     rows0 |-> rows0, attempts |-> attempts, result |-> result]

JobReturnObserved ==
    /\ pc = "done"
    /\ EndRun
    /\ last_run' = Observed("returned")

\* the process stops while check_immediate_emails is inside
\* send_immediate_email, after any number of pairs and before the bulk
\* update is committed; nothing was committed, the restarted application
\* starts its scheduler again
Crash ==
    /\ pc \in {"immediate_loop", "immediate_reset"}
    /\ EndRun
    /\ last_run' = Observed("crashed")

TickNext ==
    \/ \E db \in {"ok", "raise"} : ImmediateStart(db)
    \/ \E e \in TickEnvs : ImmediatePair(e)
    \/ \E db \in {"ok", "update_raises", "commit_raises"} : ImmediateReset(db)
    \/ JobReturnObserved

\* the interval trigger fires every minute, so the job is idle only for a
\* while, and a run that has begun goes on to its end
TickSpec ==
    /\ TickInit /\ [][TickNext]_vars
    /\ []<>(pc # "idle")
    /\ WF_vars(\E e \in TickEnvs : ImmediatePair(e))
    /\ WF_vars(\E db \in {"ok", "update_raises", "commit_raises"} :
                  ImmediateReset(db))
    /\ WF_vars(JobReturnObserved)

CrashNext ==
    \/ \E db \in {"ok", "raise"} : ImmediateStart(db)
    \/ \E e \in TickEnvs : ImmediatePair(e)
    \/ \E db \in {"ok", "update_raises", "commit_raises"} : ImmediateReset(db)
    \/ JobReturnObserved
    \/ Crash

CrashSpec == TickInit /\ [][CrashNext]_vars

(***************************************************************************)
(* The news adapter on its own: get_top_10_news applied to what            *)
(* get_news_content returned, a list of articles from the provider or an   *)
(* error.                                                                  *)
(***************************************************************************)
MAX_ARTICLES == 10
MIN_ARTICLE_WORDS == 50

\* how many articles the provider answers with
MaxFetched == 12

\* a provider article: its url, what scraping it does, the scraped text (its
\* length and its length after strip()) and whether it has a title; idx is
\* its place in the provider's answer
GoodArticle(i) ==
    [idx |-> i, url |-> "str", scrape |-> "ok", text_len |-> 300,
     stripped_len |-> 290, title |-> "str"]

OddKinds == {"no_url", "url_not_str", "scrape_raises", "empty_text",
             "blank_text", "short_text", "min_text", "title_none"}

OddArticle(i, kind) ==
    CASE kind = "no_url"        -> [GoodArticle(i) EXCEPT !.url = "None"]
      [] kind = "url_not_str"   -> [GoodArticle(i) EXCEPT !.url = "int"]
      [] kind = "scrape_raises" -> [GoodArticle(i) EXCEPT !.scrape = "raises"]
      [] kind = "empty_text"    ->
             [GoodArticle(i) EXCEPT !.text_len = 0, !.stripped_len = 0]
      [] kind = "blank_text"    ->
             [GoodArticle(i) EXCEPT !.text_len = 80, !.stripped_len = 0]
      [] kind = "short_text"    ->
             [GoodArticle(i) EXCEPT !.text_len = 60,
                                    !.stripped_len = MIN_ARTICLE_WORDS - 1]
      [] kind = "min_text"      ->
             [GoodArticle(i) EXCEPT !.text_len = 60,
                                    !.stripped_len = MIN_ARTICLE_WORDS]
      [] OTHER                  -> [GoodArticle(i) EXCEPT !.title = "None"]

\* a provider answer of len articles, those at p1 and p2 odd (0: none)
Articles(len, p1, k1, p2, k2) ==
    [i \in 1..len |-> IF i = p1 THEN OddArticle(i, k1)
                      ELSE IF i = p2 THEN OddArticle(i, k2)
                      ELSE GoodArticle(i)]

\* an iteration that keeps an article whatever its text
keep_article_any_text(article) ==
    /\ article.url = "str"
    /\ article.scrape = "ok"

\* get_top_10_news, lines 89-118: the article passes the url check, is
\* scraped without exception and its text is long enough.  A missing title
\* raises at the log line after the append, which the except clause
\* swallows: the article stays in the list.
keep_article(article) ==
    /\ article.url = "str"
    /\ article.scrape = "ok"
    /\ ~(article.text_len = 0 \/ article.stripped_len < MIN_ARTICLE_WORDS)

\* get_top_10_news, lines 84-137: the loop over the provider's articles
RECURSIVE news_loop(_, _)
news_loop(articles, article_content) ==
    IF articles = <<>> \/ Len(article_content) >= MAX_ARTICLES
    THEN article_content
    ELSE news_loop(Tail(articles),
                   IF keep_article(Head(articles))
                   THEN Append(article_content, Head(articles))
                   ELSE article_content)

\* get_top_10_news, lines 69-146, given what get_news_content returned
get_top_10_news_from(articles, error) ==
    IF Truthy(error) THEN [type |-> "str", val |-> error]
    ELSE IF articles = <<>>
    THEN [type |-> "str", val |-> "No articles found for this topic"]
    ELSE LET article_content == news_loop(articles, <<>>)
         IN  IF article_content = <<>>
             THEN [type |-> "str",
                   val |-> "Could not fetch any valid articles. Please try again later."]
             ELSE [type |-> "list", val |-> article_content]

NewsInit ==
    /\ userSettings = [u \in Users |-> 0]
    /\ topicAndSchedule = <<>>
    /\ Idle
    /\ env = AllOk
    /\ out = NoOut
    /\ NotStarted

\* get_news_content returned (articles, None): up to MaxFetched articles,
\* at most two of them odd
CallGetTop10News ==
    /\ out = NoOut
    /\ \E len \in 0..MaxFetched :
       \E p1 \in 0..len, p2 \in 0..len, k1 \in OddKinds, k2 \in OddKinds :
          /\ p2 # 0 => (p1 # 0 /\ p1 < p2)
          /\ p1 = 0 => k1 = "no_url"
          /\ p2 = 0 => k2 = "no_url"
          /\ LET articles == Articles(len, p1, k1, p2, k2)
             IN  out' = [fn |-> "get_top_10_news", articles |-> articles,
                         error |-> None,
                         result |-> get_top_10_news_from(articles, None)]
    /\ UNCHANGED <<dbvars, runvars, obsvars, env, schedvars, last_run>>

\* get_news_content returned (None, error)
CallGetTop10NewsError ==
    /\ out = NoOut
    /\ out' = [fn |-> "get_top_10_news", articles |-> <<>>,
               error |-> "Unknown error from NewsAPI",
               result |-> get_top_10_news_from(<<>>, "Unknown error from NewsAPI")]
    /\ UNCHANGED <<dbvars, runvars, obsvars, env, schedvars, last_run>>

NewsNext == CallGetTop10News \/ CallGetTop10NewsError

NewsSpec == NewsInit /\ [][NewsNext]_vars

(***************************************************************************)
(* The API specification: the settings and preferences endpoints of        *)
(* main.py, called by authenticated users in any order.  The response of   *)
(* the last call is kept in out.  The column values of a userSettings row  *)
(* are a function of its user and its position (City, NewsApi,             *)
(* WeatherApi), so the table is the number of rows of each user.           *)
(***************************************************************************)
ApiTopics == {"technology", "sports"}

\* NewsTopicScheduleRequest with every field given (POST /news/preferences)
FullRequests ==
    [newsTopic : ApiTopics, deliveryTime : {"11:00"},
     isImmediate : BOOLEAN, isScheduled : {TRUE}]

\* NewsTopicScheduleRequest with the fields the caller set (exclude_unset)
PartialRequests ==
    {<<>>}
        \cup [{"newsTopic"} -> ApiTopics]
        \cup [{"isImmediate"} -> BOOLEAN]
        \cup {[newsTopic |-> t, isImmediate |-> TRUE] : t \in ApiTopics}

\* .filter(news_id == preference_id).first(): the position of the row, 0
\* when there is none
RowById(table, id) ==
    IF \E n \in 1..Len(table) : table[n].news_id = id
    THEN CHOOSE n \in 1..Len(table) : table[n].news_id = id
    ELSE 0

\* the primary key an insert gets
NextNewsId(table) ==
    IF table = <<>> THEN 1 ELSE table[Len(table)].news_id + 1

\* for field, value in update_data.items(): setattr(preference, field, value)
setattr_all(row, update_data) ==
    [f \in DOMAIN row |->
        IF f \in DOMAIN update_data THEN update_data[f] ELSE row[f]]

\* db.delete(preference)
delete_row(table, n) ==
    [k \in 1..(Len(table) - 1) |-> IF k < n THEN table[k] ELSE table[k + 1]]

Response(fn, status) == [fn |-> fn, status |-> status]

ApiFrame == UNCHANGED <<runvars, obsvars, env, schedvars, last_run>>

\* POST /user/setting
create_user_settings(current_user, db) ==
    /\ userSettings[current_user] < MaxSettings
    /\ IF db = "raise"
       THEN /\ out' = Response("create_user_settings", 500)
            /\ UNCHANGED userSettings
       ELSE /\ userSettings' = [userSettings EXCEPT ![current_user] = @ + 1]
            /\ out' = Response("create_user_settings", 200)
    /\ UNCHANGED topicAndSchedule
    /\ ApiFrame

\* PUT /user/setting
update_user_settings(current_user, db) ==
    /\ out' = Response("update_user_settings",
                       IF userSettings[current_user] = 0 THEN 404
                       ELSE IF db = "raise" THEN 500 ELSE 200)
    /\ UNCHANGED dbvars
    /\ ApiFrame

\* POST /news/preferences
create_news_preferences(current_user, preference_data, db) ==
    /\ NextNewsId(topicAndSchedule) <= MaxRows
    /\ IF db = "raise"
       THEN /\ out' = Response("create_news_preferences", 500)
            /\ UNCHANGED topicAndSchedule
       ELSE /\ topicAndSchedule' = Append(topicAndSchedule,
                   [news_id |-> NextNewsId(topicAndSchedule),
                    user_id |-> current_user,
                    newsTopic |-> preference_data.newsTopic,
                    deliveryTime |-> preference_data.deliveryTime,
                    isImmediate |-> preference_data.isImmediate,
                    isScheduled |-> preference_data.isScheduled])
            /\ out' = Response("create_news_preferences", 200)
    /\ UNCHANGED userSettings
    /\ ApiFrame

\* an update that does not look at the owner of the row
update_news_preferences_any_owner(current_user, preference_id, preference_data, db) ==
    LET n == RowById(topicAndSchedule, preference_id)
    IN  /\ IF n = 0
           THEN /\ out' = Response("update_news_preferences", 404)
                /\ UNCHANGED topicAndSchedule
           ELSE IF db = "raise"
           THEN /\ out' = Response("update_news_preferences", 500)
                /\ UNCHANGED topicAndSchedule
           ELSE /\ topicAndSchedule' =
                       [topicAndSchedule EXCEPT
                           ![n] = setattr_all(@, preference_data)]
                /\ out' = Response("update_news_preferences", 200)
        /\ UNCHANGED userSettings
        /\ ApiFrame

\* PUT /news/preferences/{preference_id}
update_news_preferences(current_user, preference_id, preference_data, db) ==
    LET n == RowById(topicAndSchedule, preference_id)
    IN  /\ IF n = 0
           THEN /\ out' = Response("update_news_preferences", 404)
                /\ UNCHANGED topicAndSchedule
           ELSE IF topicAndSchedule[n].user_id # current_user
           THEN /\ out' = Response("update_news_preferences", 403)
                /\ UNCHANGED topicAndSchedule
           ELSE IF db = "raise"
           THEN /\ out' = Response("update_news_preferences", 500)
                /\ UNCHANGED topicAndSchedule
           ELSE /\ topicAndSchedule' =
                       [topicAndSchedule EXCEPT
                           ![n] = setattr_all(@, preference_data)]
                /\ out' = Response("update_news_preferences", 200)
        /\ UNCHANGED userSettings
        /\ ApiFrame

\* DELETE /news/preferences/{preference_id}
delete_news_preference(current_user, preference_id, db) ==
    LET n == RowById(topicAndSchedule, preference_id)
    IN  /\ IF n = 0
           THEN /\ out' = Response("delete_news_preference", 404)
                /\ UNCHANGED topicAndSchedule
           ELSE IF topicAndSchedule[n].user_id # current_user
           THEN /\ out' = Response("delete_news_preference", 403)
                /\ UNCHANGED topicAndSchedule
           ELSE IF db = "raise"
           THEN /\ out' = Response("delete_news_preference", 500)
                /\ UNCHANGED topicAndSchedule
           ELSE /\ topicAndSchedule' = delete_row(topicAndSchedule, n)
                /\ out' = Response("delete_news_preference", 200)
        /\ UNCHANGED userSettings
        /\ ApiFrame

ApiInit ==
    /\ userSettings = [u \in Users |-> 0]
    /\ topicAndSchedule = <<>>
    /\ Idle
    /\ env = AllOk
    /\ out = NoOut
    /\ Started
    /\ last_run = NoRun

\* what db.commit() of an endpoint does: it returns, or it raises and the
\* endpoint rolls back and answers 500
ApiDb == {"ok", "raise"}

ApiNext ==
    \/ \E u \in Users, db \in ApiDb : create_user_settings(u, db)
    \/ \E u \in Users, db \in ApiDb : update_user_settings(u, db)
    \/ \E u \in Users, d \in FullRequests, db \in ApiDb :
          create_news_preferences(u, d, db)
    \/ \E u \in Users, id \in 1..MaxRows, d \in PartialRequests, db \in ApiDb :
          update_news_preferences(u, id, d, db)
    \/ \E u \in Users, id \in 1..MaxRows, db \in ApiDb :
          delete_news_preference(u, id, db)

ApiSpec == ApiInit /\ [][ApiNext]_vars

\* the preferences endpoints on their own
PrefNext ==
    \/ \E u \in Users, d \in FullRequests, db \in ApiDb :
          create_news_preferences(u, d, db)
    \/ \E u \in Users, id \in 1..MaxRows, d \in PartialRequests, db \in ApiDb :
          update_news_preferences(u, id, d, db)
    \/ \E u \in Users, id \in 1..MaxRows, db \in ApiDb :
          delete_news_preference(u, id, db)

PrefSpec == ApiInit /\ [][PrefNext]_vars

(***************************************************************************)
(* The trigger specification: the wall clock reaches a minute, the cron    *)
(* job of that minute (if any) runs the scheduled path and the interval    *)
(* job runs the immediate path.                                            *)
(***************************************************************************)
\* the minutes of the day the clock is observed at
WallClock == [hour : {11, 12, 14, 17, 19, 21, 23}, minute : {0, 30}]

CronTimes == {"11:00", "23:00", "12:00", "11:30"}

CronTables ==
    UNION {{t \in [1..m -> [news_id : 1..m, user_id : {1},
                            newsTopic : Range(Topics),
                            deliveryTime : CronTimes,
                            isImmediate : BOOLEAN, isScheduled : {TRUE}]] :
              \A id \in 1..m : /\ t[id].news_id = id
                               /\ t[id].newsTopic = TopicOf(id)
                               /\ t[id].isImmediate = (id = 2)}
           : m \in 0..MaxRows}

CronInit ==
    /\ userSettings = [u \in Users |-> 1]
    /\ topicAndSchedule \in CronTables
    /\ Idle
    /\ env = AllOk
    /\ out = NoOut
    /\ Started
    /\ last_run = NoRun

\* the clock reaches hm: the digest job whose trigger matches is run
CronFire(hm, db) ==
    \E j \in DOMAIN CronTrigger :
        /\ CronTrigger[j] = hm
        /\ BatchStart(JobTarget[j], db)

\* the clock reaches hm: the interval job (minutes=1) is run
IntervalFire(hm, db) ==
    /\ hm \in WallClock
    /\ ImmediateStart(db)

CronNext ==
    \/ \E hm \in WallClock, db \in {"ok", "raise"} : CronFire(hm, db)
    \/ \E hm \in WallClock, db \in {"ok", "raise"} : IntervalFire(hm, db)
    \/ \E e \in TickEnvs : BatchPair(e)
    \/ BatchReturn
    \/ \E e \in TickEnvs : ImmediatePair(e)
    \/ \E db \in {"ok", "update_raises", "commit_raises"} : ImmediateReset(db)
    \/ JobReturn

CronSpec == CronInit /\ [][CronNext]_vars

(***************************************************************************)
(* The interleaving specification: the interval job runs the immediate     *)
(* path in the scheduler's thread while users call                        *)
(* PUT /news/preferences/{id}; an API call is one transaction that takes   *)
(* place between two steps of the run.                                     *)
(***************************************************************************)
\* the updates that ask for an immediate digest or change its topic
RaceRequests ==
    [{"newsTopic"} -> ApiTopics] \cup [{"isImmediate"} -> {TRUE}]

RaceInit ==
    /\ userSettings = [u \in Users |-> 1]
    /\ topicAndSchedule \in TickTables
    /\ Idle
    /\ env = AllOk
    /\ out = NoOut
    /\ Started
    /\ last_run = NoRun

RaceNext ==
    \/ \E db \in {"ok", "raise"} : ImmediateStart(db)
    \/ \E e \in TickEnvs : ImmediatePair(e)
    \/ \E db \in {"ok", "update_raises", "commit_raises"} : ImmediateReset(db)
    \/ JobReturn
    \/ \E u \in Users, id \in 1..MaxRows, d \in RaceRequests, db \in ApiDb :
          update_news_preferences(u, id, d, db)

\* the interval trigger fires every minute and a run that has begun goes on
\* to its end; users call the API when they like
RaceSpec ==
    /\ RaceInit /\ [][RaceNext]_vars
    /\ []<>(pc # "idle")
    /\ WF_vars(\E e \in TickEnvs : ImmediatePair(e))
    /\ WF_vars(\E db \in {"ok", "update_raises", "commit_raises"} :
                  ImmediateReset(db))
    /\ WF_vars(JobReturn)

(***************************************************************************)
(* The repetition specification: scheduled digest runs one after the      *)
(* other on tables nothing else writes to, each run observed when it ends. *)
(***************************************************************************)
TwiceTables ==
    {t \in Tables(MaxRows) : \A n \in 1..Len(t) : ~t[n].isImmediate}

TwiceInit ==
    /\ userSettings \in [Users -> SettingCounts]
    /\ topicAndSchedule \in TwiceTables
    /\ Len(Joined(userSettings, topicAndSchedule)) <= MaxPairs
    /\ Idle
    /\ env = AllOk
    /\ out = NoOut
    /\ Started
    /\ last_run = NoRun

TwiceNext ==
    \/ \E t \in DeliveryTimes, db \in {"ok", "raise"} : BatchStart(t, db)
    \/ \E e \in TickEnvs : BatchPair(e)
    \/ BatchReturn
    \/ JobReturnObserved

TwiceSpec == TwiceInit /\ [][TwiceNext]_vars

(***************************************************************************)
(* The scheduler specification: the application starts the scheduler,      *)
(* serves /health and shuts down; meanwhile the triggers fire and the runs *)
(* of the jobs execute in the scheduler's thread pool, each run abstracted *)
(* to its start and its end.                                               *)
(***************************************************************************)
\* the ways a run of run_digest_job / check_immediate_emails ends: the
\* method returned a summary with the status, an exception was caught by
\* the except clause, or SessionLocal() raised before the try statement
RunOutcomes == {"success", "partial_success", "error", "caught", "escaped"}

SchedInit ==
    /\ userSettings = [u \in Users |-> 0]
    /\ topicAndSchedule = <<>>
    /\ Idle
    /\ env = AllOk
    /\ out = NoOut
    /\ NotStarted

\* lifespan startup: the jobs are added, then scheduler.start()
start_scheduler ==
    /\ app = "starting"
    /\ scheduler_jobs' = JobIds
    /\ scheduler_running' = TRUE
    /\ app' = "serving"
    /\ out' = [fn |-> "start_scheduler", raised |-> FALSE]
    /\ UNCHANGED <<dbvars, runvars, obsvars, env, instances, last_run>>

\* a trigger fires: the run is submitted to the pool unless the job has
\* max_instances runs executing, in which case the firing is skipped
Fire(j) ==
    /\ scheduler_running
    /\ j \in scheduler_jobs
    /\ instances' = IF instances[j] < max_instances
                    THEN [instances EXCEPT ![j] = @ + 1]
                    ELSE instances
    /\ out' = [fn |-> "fire", job_id |-> j,
               skipped |-> ~(instances[j] < max_instances)]
    /\ UNCHANGED <<dbvars, runvars, obsvars, env, scheduler_running,
                   scheduler_jobs, app, last_run>>

\* run_digest_job / check_immediate_emails return (or raise) in their
\* pool thread; the scheduler logs a raised exception and keeps the job
Finish(j, outcome) ==
    /\ instances[j] > 0
    /\ instances' = [instances EXCEPT ![j] = @ - 1]
    /\ out' = [fn |-> IF j = "check_immediate"
                      THEN "check_immediate_emails" ELSE "run_digest_job",
               job_id |-> j, outcome |-> outcome]
    /\ UNCHANGED <<dbvars, runvars, obsvars, env, scheduler_running,
                   scheduler_jobs, app, last_run>>

\* a stop_scheduler that calls shutdown() whatever scheduler.running is;
\* shutdown() of a stopped scheduler raises SchedulerNotRunningError
stop_scheduler_unguarded ==
    /\ scheduler_running' = FALSE
    /\ scheduler_jobs' \in {scheduler_jobs, {}}
    /\ app' = IF app = "serving" THEN "shutdown" ELSE app
    /\ out' = [fn |-> "stop_scheduler", raised |-> ~scheduler_running]
    /\ UNCHANGED <<dbvars, runvars, obsvars, env, instances, last_run>>

\* stop_scheduler, lines 116-123: shutdown() only if scheduler.running.
\* shutdown() marks the scheduler stopped, lets the executing runs finish
\* and shuts the job store down (which may drop its jobs).
stop_scheduler ==
    /\ IF scheduler_running
       THEN /\ scheduler_running' = FALSE
            /\ scheduler_jobs' \in {scheduler_jobs, {}}
       ELSE UNCHANGED <<scheduler_running, scheduler_jobs>>
    /\ app' = IF app = "serving" THEN "shutdown" ELSE app
    /\ out' = [fn |-> "stop_scheduler", raised |-> FALSE]
    /\ UNCHANGED <<dbvars, runvars, obsvars, env, instances, last_run>>

\* GET /health, src/main.py:671-677
health_check ==
    /\ out' = [fn |-> "health_check", status |-> "ok",
               scheduler_running |-> scheduler_running]
    /\ UNCHANGED <<dbvars, runvars, obsvars, env, schedvars, last_run>>

SchedNext ==
    \/ start_scheduler
    \/ \E j \in JobIds : Fire(j)
    \/ \E j \in JobIds, outcome \in RunOutcomes : Finish(j, outcome)
    \/ stop_scheduler
    \/ health_check

SchedSpec == SchedInit /\ [][SchedNext]_vars

(***************************************************************************)
(* Vocabulary of the properties.  The due set of a run is computed here    *)
(* from the tables as they were when the run started, independently of     *)
(* the operators that model the selection code.                            *)
(***************************************************************************)
BatchJob     == job = "send_emails_batch"
ImmediateJob == job = "send_immediate_email"

\* joined rows due at time t
TimeDue(table, t) ==
    SelectSeq(Joined(userSettings, table), LAMBDA row : row.deliveryTime = t)

\* joined rows flagged for an immediate send
FlagDue(table) ==
    SelectSeq(Joined(userSettings, table), LAMBDA row : row.isImmediate)

\* the user ids of rows, each once, in order of first appearance
RECURSIVE UsersInOrder(_)
UsersInOrder(rows) ==
    IF rows = <<>> THEN <<>>
    ELSE <<Head(rows).id>>
         \o SelectSeq(UsersInOrder(Tail(rows)), LAMBDA u : u # Head(rows).id)

\* rows in the order of the grouped selection: users in order of first
\* appearance, the rows of one user in the order the query returned them
Grouped(rows) ==
    LET us == UsersInOrder(rows)
    IN  Flatten([n \in 1..Len(us) |->
                    SelectSeq(rows, LAMBDA r : r.id = us[n])])

\* the due set of the current run, in grouped selection order
Due ==
    Grouped(IF BatchJob THEN TimeDue(rows0, target_time) ELSE FlagDue(rows0))

\* the table with both flags of every row overwritten
WithFlags(table, imm, sched) ==
    [n \in DOMAIN table |->
        [table[n] EXCEPT !.isImmediate = imm, !.isScheduled = sched]]

Succeeded == Count(attempts, LAMBDA a : a.success)
Failed    == Count(attempts, LAMBDA a : ~a.success)

\* ids of the rows a successful attempt of the run belongs to
SucceededIds ==
    {attempts[n].schedule_id : n \in {k \in 1..Len(attempts) : attempts[k].success}}

LoopOver == pc \in {"batch_return", "immediate_reset", "done"}

NotifierCalls(cs) == Count(cs, LAMBDA c : c = "notifier")

\* some step of digest generation does not succeed
GenerationFails(e) ==
    e.news # "articles" \/ e.weather # "ok" \/ e.stock # "ok" \/ e.render # "ok"

NotifierErrorTexts ==
    {"Brevo credentials not configured", "Brevo error: status - text",
     "Failed to send email: exception"}

(***************************************************************************)
(* C1                                                                      *)
(***************************************************************************)
\* C1: after a run of send_immediate_email has returned, every selected
\* row whose generation and delivery succeeded has isImmediate = FALSE and
\* every selected row whose generation or delivery failed still has
\* isImmediate = TRUE.
C1_FlagFollowsOutcome ==
    (ImmediateJob /\ pc = "done") =>
        \A n \in 1..Len(attempts) :
            LET row == topicAndSchedule[attempts[n].schedule_id]
            IN  /\ attempts[n].success => row.isImmediate = FALSE
                /\ ~attempts[n].success => row.isImmediate = TRUE

(***************************************************************************)
(* C2                                                                      *)
(***************************************************************************)
\* C2: a run of send_emails_batch over a due set of N pairs of which F
\* fail returns emails_sent = N - F, emails_failed = F and status
\* "success" if F = 0, "partial_success" otherwise.
C2_BatchSummary ==
    (BatchJob /\ pc = "done" /\ db_failure = None) =>
        /\ result.emails_sent = Len(TimeDue(rows0, target_time)) - Failed
        /\ result.emails_failed = Failed
        /\ result.status = "success" <=> Failed = 0
        /\ result.status = "partial_success" <=> Failed # 0

C2_Witness ==
    /\ BatchJob /\ pc = "done"
    /\ Len(TimeDue(rows0, target_time)) = 2
    /\ Failed = 1
    /\ result.status = "partial_success"

(***************************************************************************)
(* C3                                                                      *)
(***************************************************************************)
\* C3: a run of send_emails_batch never changes a persisted row and issues
\* no update and no commit, and its due set and the counts of its result
\* are those of the same tables with isImmediate and isScheduled of every
\* row overwritten by any values.
C3_BatchFrame ==
    BatchJob =>
        /\ topicAndSchedule = rows0
        /\ dbops = <<>>
        /\ db_failure = None =>
             \A imm \in BOOLEAN, sched \in BOOLEAN :
                LET due == Grouped(TimeDue(WithFlags(rows0, imm, sched),
                                           target_time))
                    ps  == Pairs(users)
                IN  /\ Len(ps) = Len(due)
                    /\ \A n \in 1..Len(due) :
                          LET p == ps[n]
                          IN  /\ users[p[1]].email = due[n].email
                              /\ Prefs(users[p[1]])[p[2]].news_topic
                                     = due[n].newsTopic
                    /\ pc = "done" =>
                          /\ result.total_users = Len(UsersInOrder(due))
                          /\ result.emails_sent + result.emails_failed
                                 = Len(due)

C3_Witness ==
    /\ BatchJob /\ pc = "done"
    /\ Failed >= 1
    /\ \E n \in 1..Len(rows0) :
          /\ rows0[n].deliveryTime = target_time
          /\ rows0[n].isImmediate
          /\ ~rows0[n].isScheduled
          /\ userSettings[rows0[n].user_id] > 0
    /\ \E n \in 1..Len(rows0) :
          /\ rows0[n].deliveryTime = target_time
          /\ ~rows0[n].isImmediate
          /\ rows0[n].isScheduled
          /\ userSettings[rows0[n].user_id] > 0

C5_EmptyDueSet ==
    (job # "none" /\ db_failure = None /\ Due = <<>>) =>
        /\ pc = "done"
        /\ attempts = <<>>
        /\ dbops = <<>>
        /\ topicAndSchedule = rows0
        /\ result.emails_sent = 0
        /\ result.emails_failed = 0
        /\ BatchJob =>
              /\ result.status = "success"
              /\ result.total_users = 0
              /\ result.errors = <<>>
        /\ ImmediateJob =>
              /\ result.status = "error"
              /\ result.message =
                     "User not found or not configured for immediate emails"

C5_Witness ==
    /\ BatchJob /\ pc = "done" /\ db_failure = None
    /\ Due = <<>>
    /\ Len(rows0) = 2
    /\ result.status = "success"

(***************************************************************************)
(* C6                                                                      *)
(***************************************************************************)
\* C6: a run of send_emails_batch whose selection query raises calls no
\* provider and no Notifier and returns status "error" with the selection
\* error as message and all counts 0; and send_emails_batch returns status
\* "error" only when the selection query raised.
C6_SelectionFailure ==
    BatchJob =>
        /\ db_failure = "select" =>
              /\ pc = "done"
              /\ attempts = <<>>
              /\ result.status = "error"
              /\ result.message =
                     "Database error while fetching users: " \o DbErrorText
              /\ result.total_users = 0
              /\ result.emails_sent = 0
              /\ result.emails_failed = 0
        /\ (pc = "done" /\ result.status = "error") => db_failure = "select"

C6_Witness ==
    /\ BatchJob /\ pc = "done"
    /\ db_failure = "select"
    /\ Len(TimeDue(rows0, target_time)) = 2

(***************************************************************************)
(* C7                                                                      *)
(***************************************************************************)
\* C7: when digest generation returns an error send_email_to_user does not
\* invoke the Notifier and returns the generation error; when generation
\* succeeds and the Notifier fails it invokes the Notifier once and
\* returns the Notifier's error.
C7_GenerationErrorSkipsNotifier ==
    out.fn = "send_email_to_user" =>
        /\ GenerationFails(env) =>
              /\ NotifierCalls(out.calls) = 0
              /\ ~out.success
              /\ Truthy(out.html_error)
              /\ out.error = out.html_error
              /\ out.error \notin NotifierErrorTexts
        /\ (~GenerationFails(env) /\ env.notifier # "201") =>
              /\ NotifierCalls(out.calls) = 1
              /\ ~out.success
              /\ out.error = out.email_error
              /\ out.error \in NotifierErrorTexts

C7_Witness ==
    /\ out.fn = "send_email_to_user"
    /\ env.news = "articles" /\ env.weather = "api_error"
    /\ env.notifier = "201"
    /\ NotifierCalls(out.calls) = 0

(***************************************************************************)
(* C8                                                                      *)
(***************************************************************************)
\* C8: a run of send_immediate_email over a non-empty due set with S
\* successful and F failed pairs returns emails_sent = S, emails_failed = F
\* and status "success" iff F = 0, "partial_success" iff F > 0 and S > 0,
\* "error" iff S = 0 and F > 0.
C8_ImmediateStatus ==
    (ImmediateJob /\ pc = "done" /\ attempts # <<>>) =>
        /\ result.emails_sent = Succeeded
        /\ result.emails_failed = Failed
        /\ result.status = "success" <=> Failed = 0
        /\ result.status = "partial_success" <=> (Failed > 0 /\ Succeeded > 0)
        /\ result.status = "error" <=> (Succeeded = 0 /\ Failed > 0)

(***************************************************************************)
(* C9                                                                      *)
(***************************************************************************)
UpdateOp == [op |-> "update", ids |-> SucceededIds]
CommitOp == [op |-> "commit", ids |-> {}]

\* no flag changes and no statement is issued while pairs are processed
NothingBeforeLoopOver ==
    (ImmediateJob /\ pc # "done") => (topicAndSchedule = rows0 /\ dbops = <<>>)

\* C9: no isImmediate flag changes before every selected pair has been
\* processed; then one bulk update covering exactly the reset-list followed
\* by exactly one commit is issued, and none when the reset-list is empty.
C9_UpdateThenCommit ==
    /\ NothingBeforeLoopOver
    /\ (ImmediateJob /\ pc = "done") =>
          dbops = IF SucceededIds = {} THEN <<>> ELSE <<UpdateOp, CommitOp>>

\* What the reset step does in every run, a raising statement included:
\* the update covers exactly the reset-list, the commit follows unless the
\* update raised, and only rows of the reset-list change.
ResetStepOrdering ==
    /\ NothingBeforeLoopOver
    /\ (ImmediateJob /\ pc = "done") =>
          /\ dbops = IF SucceededIds = {} THEN <<>>
                     ELSE IF db_failure = "update" THEN <<UpdateOp>>
                     ELSE <<UpdateOp, CommitOp>>
          /\ \A n \in 1..Len(rows0) :
                topicAndSchedule[n] # rows0[n] => n \in SucceededIds

(***************************************************************************)
(* C10                                                                     *)
(***************************************************************************)
\* C10: _generate_html returns a document exactly when the news, weather
\* and stock fetches and the rendering all succeeded, and the document is
\* built from all three sources; in every other case it returns None and
\* an error description.
C10_DocumentIffAllSucceeded ==
    out.fn = "_generate_html" =>
        /\ out.html.type = "html" <=> ~GenerationFails(env)
        /\ out.html.type = "html" =>
              /\ out.error = None
              /\ out.html.sources = {"news", "weather", "stock"}
        /\ out.html.type # "html" =>
              /\ out.html = NoHtml
              /\ Truthy(out.error)

C10_Witness ==
    /\ out.fn = "_generate_html"
    /\ env.news = "articles" /\ env.weather = "ok" /\ env.stock = "empty"
    /\ env.render = "ok"
    /\ out.html = NoHtml

(***************************************************************************)
(* Vocabulary of the selection properties: what a call on its own was      *)
(* given, read from the tables.                                            *)
(***************************************************************************)
SelectionReturned(fn) == out.fn = fn /\ out.db = "ok"

\* the groups of user u in a grouped selection
GroupsOf(data, u) == SelectSeq(data, LAMBDA g : g.id = u)

\* the topic entries of the rows of user u with delivery time t, one per
\* userSettings row of u, in table order
DueEntries(u, t) ==
    Flatten([n \in 1..Len(topicAndSchedule) |->
        LET r == topicAndSchedule[n]
        IN  IF r.user_id = u /\ r.deliveryTime = t
            THEN [k \in 1..userSettings[u] |->
                     [news_topic |-> r.newsTopic,
                      delivery_time |-> r.deliveryTime]]
            ELSE <<>>])

\* the same for the rows of user u with isImmediate = TRUE
FlaggedEntries(u) ==
    Flatten([n \in 1..Len(topicAndSchedule) |->
        LET r == topicAndSchedule[n]
        IN  IF r.user_id = u /\ r.isImmediate
            THEN [k \in 1..userSettings[u] |->
                     [news_topic |-> r.newsTopic,
                      delivery_time |-> r.deliveryTime]]
            ELSE <<>>])

\* the joined rows a selection on its own grouped
SelectedRows ==
    IF out.fn = "get_users_to_notify"
    THEN SelectSeq(Joined(userSettings, topicAndSchedule),
                   LAMBDA r : Truthy(target_time) => r.deliveryTime = target_time)
    ELSE FlagDue(topicAndSchedule)

\* the topic entries of a group, under the key of either path
EntriesOf(g) ==
    IF out.fn = "get_users_to_notify"
    THEN g.news_preferences ELSE g.news_preference

(***************************************************************************)
(* C11                                                                     *)
(***************************************************************************)
\* C11: get_users_to_notify called with a target time returns, without an
\* error, one group for every user who has a userSettings row and a row
\* with that delivery time, whose entries are exactly those rows; a user
\* without userSettings row or without such a row does not appear.
C11_TimeSelection ==
    (SelectionReturned("get_users_to_notify") /\ Truthy(target_time)) =>
        /\ out.error = None
        /\ \A u \in Users :
              LET gs  == GroupsOf(out.user_data, u)
                  due == DueEntries(u, target_time)
              IN  /\ (userSettings[u] = 0
                        \/ ~\E n \in 1..Len(topicAndSchedule) :
                              /\ topicAndSchedule[n].user_id = u
                              /\ topicAndSchedule[n].deliveryTime = target_time)
                     => gs = <<>>
                  /\ IF due = <<>> THEN gs = <<>>
                     ELSE /\ Len(gs) = 1
                          /\ gs[1].news_preferences = due

C11_Witness ==
    /\ SelectionReturned("get_users_to_notify")
    /\ target_time = "11:00"
    /\ Len(out.user_data) = 1
    /\ Len(out.user_data[1].news_preferences) = 1
    /\ Len(topicAndSchedule) = 3
    /\ \E u \in Users :
          /\ userSettings[u] = 0
          /\ \E n \in 1..3 : /\ topicAndSchedule[n].user_id = u
                             /\ topicAndSchedule[n].deliveryTime = "11:00"
    /\ \E n \in 1..3 : /\ topicAndSchedule[n].user_id = out.user_data[1].id
                       /\ topicAndSchedule[n].deliveryTime = "14:00"

(***************************************************************************)
(* C12                                                                     *)
(***************************************************************************)
\* C12: get_users_to_notify called without a target time returns exactly
\* the users who have a row with isImmediate = TRUE, and the entries of a
\* user are exactly those rows.
C12_ImmediateModeSelection ==
    (SelectionReturned("get_users_to_notify") /\ target_time = None) =>
        \A u \in Users :
            LET gs      == GroupsOf(out.user_data, u)
                flagged == FlaggedEntries(u)
            IN  IF flagged = <<>> THEN gs = <<>>
                ELSE /\ Len(gs) = 1
                     /\ gs[1].news_preferences = flagged

(***************************************************************************)
(* C13                                                                     *)
(***************************************************************************)
\* C13: in both paths the grouping of the joined rows puts every user id
\* in exactly one group, the entries of a group are that user's rows in
\* query order, the number of entries is the number of rows, and in the
\* immediate path an entry carries the news_id of its row.
C13_Grouping ==
    (SelectionReturned("get_users_to_notify")
        \/ SelectionReturned("immediate_selection")) =>
        LET rows == SelectedRows
            data == out.user_data
        IN  /\ \A m, n \in 1..Len(data) : data[m].id = data[n].id => m = n
            /\ {data[n].id : n \in 1..Len(data)}
                   = {rows[n].id : n \in 1..Len(rows)}
            /\ \A n \in 1..Len(data) :
                  LET mine  == SelectSeq(rows, LAMBDA r : r.id = data[n].id)
                      prefs == EntriesOf(data[n])
                  IN  /\ Len(prefs) = Len(mine)
                      /\ data[n].email = mine[1].email
                      /\ data[n].city = mine[1].city
                      /\ \A k \in 1..Len(prefs) :
                            /\ prefs[k].news_topic = mine[k].newsTopic
                            /\ out.fn = "immediate_selection" =>
                                   prefs[k].schedule_id = mine[k].news_id
                            /\ out.fn = "get_users_to_notify" =>
                                   prefs[k].delivery_time = mine[k].deliveryTime
            /\ Len(Flatten([n \in 1..Len(data) |-> EntriesOf(data[n])]))
                   = Len(rows)

C13_Witness ==
    /\ SelectionReturned("get_users_to_notify")
    /\ Len(SelectedRows) = 3
    /\ SelectedRows[1].id = SelectedRows[3].id
    /\ SelectedRows[1].id # SelectedRows[2].id
    /\ Len(out.user_data) = 2
    /\ Len(out.user_data[1].news_preferences) = 2

(***************************************************************************)
(* C14                                                                     *)
(***************************************************************************)
DigestJobs == DOMAIN JobTarget

\* no job has two runs executing together
OneRunPerJob == \A j \in JobIds : instances[j] <= 1

\* C14: two runs of the same kind are never in progress together: not two
\* runs of the immediate check, and not two scheduled digest runs, of the
\* same or of different time slots.
C14_NoOverlapOfSameKind ==
    /\ instances["check_immediate"] <= 1
    /\ Cardinality({j \in DigestJobs : instances[j] > 0}) <= 1
    /\ \A j \in DigestJobs : instances[j] <= 1

(***************************************************************************)
(* C20                                                                     *)
(***************************************************************************)
\* C20: /health reports scheduler_running = TRUE in every state between
\* the completed start_scheduler and stop_scheduler and FALSE after
\* stop_scheduler; stop_scheduler called while the scheduler is not
\* running changes nothing of the scheduler and does not fail.
C20_HealthProbe ==
    /\ [](app = "serving" => scheduler_running)
    /\ [](app = "shutdown" => ~scheduler_running)
    /\ [][health_check => out'.scheduler_running = (app = "serving")]_vars
    /\ [][(stop_scheduler /\ ~scheduler_running) =>
             /\ UNCHANGED <<scheduler_running, scheduler_jobs, instances>>
             /\ ~out'.raised]_vars

C20_Witness ==
    /\ app = "shutdown"
    /\ out.fn = "health_check"
    /\ out.scheduler_running = FALSE
    /\ \E j \in JobIds : instances[j] > 0

(***************************************************************************)
(* C15                                                                     *)
(***************************************************************************)
Flagged(id) ==
    id <= Len(topicAndSchedule) /\ topicAndSchedule[id].isImmediate

\* the current immediate run has delivered the digest of row id
DeliveredNow(id) ==
    /\ ImmediateJob
    /\ \E n \in 1..Len(attempts) :
          attempts[n].schedule_id = id /\ attempts[n].success

AttemptedNow(id) ==
    \E n \in 1..Len(attempts) : attempts[n].schedule_id = id

\* a row that failed in the previous run and was still flagged when this
\* run selected is attempted by this run
RetriedByNextTick ==
    (ImmediateJob /\ LoopOver /\ db_failure # "select"
        /\ last_run.ended = "returned") =>
        \A n \in 1..Len(last_run.attempts) :
            LET a == last_run.attempts[n]
            IN  (~a.success /\ rows0[a.schedule_id].isImmediate)
                    => AttemptedNow(a.schedule_id)

\* a run attempts no row twice
NoRepeatInRun ==
    ImmediateJob =>
        \A m, n \in 1..Len(attempts) :
            attempts[m].schedule_id = attempts[n].schedule_id => m = n

\* C15: a row whose immediate delivery failed is attempted again by the
\* later ticks while its flag stays TRUE; no run attempts a row twice; and
\* under fair firing of the interval trigger, once generation and delivery
\* of a row have succeeded its isImmediate flag is eventually cleared.
C15_RetryUntilCleared ==
    /\ []RetriedByNextTick
    /\ []NoRepeatInRun
    /\ \A id \in 1..MaxRows : DeliveredNow(id) ~> ~Flagged(id)

(***************************************************************************)
(* C18                                                                     *)
(***************************************************************************)
\* C18: when the process stopped after the Notifier had sent the digest of
\* a row and before the flag clear was committed, the row is still flagged
\* and the next immediate tick attempts the row again.
C18_DuplicateSendAfterCrash ==
    last_run.ended = "crashed" =>
        \A n \in 1..Len(last_run.attempts) :
            LET a == last_run.attempts[n]
            IN  a.success =>
                  /\ rows0[a.schedule_id].isImmediate
                  /\ (ImmediateJob /\ LoopOver /\ db_failure # "select")
                         => AttemptedNow(a.schedule_id)

\* the digest of one row has been delivered twice
C18_Witness ==
    /\ last_run.ended = "crashed"
    /\ pc = "done"
    /\ \E n \in 1..Len(last_run.attempts) :
          /\ last_run.attempts[n].success
          /\ DeliveredNow(last_run.attempts[n].schedule_id)

(***************************************************************************)
(* C19                                                                     *)
(***************************************************************************)
AllSucceeded(as) == \A n \in 1..Len(as) : as[n].success

\* this run and the previous one are scheduled runs for the same target
\* time on the same data whose selection query worked and in which every
\* provider and the Notifier succeeded
SameRunTwice ==
    /\ BatchJob /\ pc = "done" /\ db_failure = None
    /\ last_run.ended = "returned"
    /\ last_run.job = "send_emails_batch"
    /\ last_run.result.status # "error"
    /\ last_run.target_time = target_time
    /\ last_run.rows0 = rows0
    /\ AllSucceeded(last_run.attempts)
    /\ AllSucceeded(attempts)

ErrorEntry(a) ==
    IF BatchJob
    THEN [user_email |-> a.user_email, news_topic |-> a.news_topic,
          error |-> a.error]
    ELSE [news_topic |-> a.news_topic, error |-> a.error]

\* the failed attempts of the run, in order
FailedAttempts == SelectSeq(attempts, LAMBDA a : ~a.success)

\* every failed attempt so far is counted and listed as that pair's failure
FailuresRecorded ==
    LET failed == FailedAttempts
    IN  /\ emails_failed = Len(failed)
        /\ emails_sent = Len(attempts) - Len(failed)
        /\ Len(errors) = Len(failed)
        /\ \A n \in 1..Len(failed) :
              /\ errors[n] = ErrorEntry(failed[n])
              /\ Truthy(failed[n].error)

\* no failure ends the loop: when it is over every entry of the due set was
\* attempted
LoopRunsToItsEnd ==
    LET due == Due
    IN  /\ Len(attempts) <= Len(due)
        /\ LoopOver => Len(attempts) = Len(due)

\* every job of the trigger is registered and the trigger is running
TriggerIntact == scheduler_running /\ scheduler_jobs = JobIds

\* C16: a failure while one pair is processed is recorded as that pair's
\* failure and does not end the batch; a run that fails at selection ends
\* only that run: the jobs stay registered, the run returns, and after it
\* every scheduled and the interval firing starts the path again.
C16_FailuresAreData ==
    /\ (job # "none" /\ db_failure # "select") =>
          FailuresRecorded /\ LoopRunsToItsEnd
    /\ db_failure = "select" => pc = "done" /\ attempts = <<>>
    /\ TriggerIntact
    /\ pc = "done" => ENABLED JobReturn
    /\ pc = "idle" =>
          /\ \A t \in DeliveryTimes : ENABLED StartRun("send_emails_batch", t)
          /\ ENABLED StartRun("send_immediate_email", None)

C16_Witness ==
    /\ ImmediateJob /\ pc = "immediate_reset"
    /\ Len(attempts) = 3
    /\ ~attempts[1].success /\ ~attempts[2].success /\ attempts[3].success
    /\ emails_failed = 2 /\ Len(errors) = 2

(***************************************************************************)
(* C17                                                                     *)
(***************************************************************************)
\* the error texts of the template/config kind
TemplateConfigErrors ==
    {"Template file not found: " \o x : x \in RenderAnswers}
        \cup {"Missing required data field: " \o x : x \in RenderAnswers}

\* the error texts of each provider's upstream-error kind
NewsErrors ==
    {"News API error: " \o get_top_10_news(a).val :
        a \in {x \in NewsAnswers : get_top_10_news(x).type = "str"}}

WeatherErrors ==
    {"Weather API error: " \o get_weather_api(a).val :
        a \in {x \in WeatherAnswers : get_weather_api(x).type = "str"}}

StockErrors ==
    {"Stock API error: " \o get_stock_api(a).val :
        a \in {x \in StockAnswers : get_stock_api(x).type = "str"}}

\* the provider that is asked and fails
NewsFails(e)    == e.news # "articles"
WeatherFails(e) == ~NewsFails(e) /\ e.weather # "ok"
StockFails(e)   == ~NewsFails(e) /\ ~WeatherFails(e) /\ e.stock # "ok"
ProvidersOk(e)  == e.news = "articles" /\ e.weather = "ok" /\ e.stock = "ok"

\* the template file is not there / a field the template needs is not there
TemplateMissing(e) ==
    ProvidersOk(e) /\ e.render \in {"TemplateNotFound", "FileNotFoundError"}
FieldMissing(e) == ProvidersOk(e) /\ e.render = "KeyError"

\* C17: _generate_html reports the template/config kind ('Template file not
\* found', 'Missing required data field') only when the template or a
\* field is missing from otherwise successful provider data; a failure of
\* the news, weather or stock provider is always reported with that
\* provider's own kind, and a missing template always with the
\* template/config kind.
C17_ErrorKinds ==
    out.fn = "_generate_html" =>
        /\ out.error \in TemplateConfigErrors =>
              TemplateMissing(env) \/ FieldMissing(env)
        /\ NewsFails(env)    => out.error \in NewsErrors
        /\ WeatherFails(env) => out.error \in WeatherErrors
        /\ StockFails(env)   => out.error \in StockErrors
        /\ TemplateMissing(env) => out.error \in TemplateConfigErrors

(***************************************************************************)
(* C21                                                                     *)
(***************************************************************************)
\* ids of the rows flagged at selection time whose user has a setting
FlaggedWithSetting ==
    {rows0[n].news_id :
        n \in {k \in 1..Len(rows0) :
                  rows0[k].isImmediate /\ userSettings[rows0[k].user_id] > 0}}

\* ids of the rows the run has attempted
AttemptedIds == {attempts[n].schedule_id : n \in 1..Len(attempts)}

C22_OneSettingPerUser ==
    /\ \A u \in Users : userSettings[u] <= 1
    /\ \A n \in 1..Len(topicAndSchedule) :
          userSettings[topicAndSchedule[n].user_id] > 0 =>
              Len(Joined(userSettings, <<topicAndSchedule[n]>>)) = 1

(***************************************************************************)
(* C23                                                                     *)
(***************************************************************************)
ProviderOrder == <<"news", "weather", "stock", "render">>

\* C23: _generate_html asks news, weather, stock and then the renderer, in
\* this order, and stops at the first that fails: after a failed news fetch
\* neither weather nor stock is fetched, after a failed weather fetch stock
\* is not fetched, and rendering is attempted only when all three fetches
\* succeeded.
C23_ProviderOrder ==
    out.fn = "_generate_html" =>
        /\ out.calls = SubSeq(ProviderOrder, 1, Len(out.calls))
        /\ out.calls # <<>>
        /\ NewsFails(env)    => out.calls = <<"news">>
        /\ WeatherFails(env) => out.calls = <<"news", "weather">>
        /\ StockFails(env)   => out.calls = <<"news", "weather", "stock">>
        /\ "render" \in Range(out.calls) <=> ProvidersOk(env)

C23_Witness ==
    /\ out.fn = "_generate_html"
    /\ env.news = "articles" /\ env.weather = "KeyError"
    /\ env.stock = "ok" /\ env.render = "ok"
    /\ out.calls = <<"news", "weather">>

(***************************************************************************)
(* C24                                                                     *)
(***************************************************************************)
\* a minute of the day written as "HH:MM"
Pad2(n) == IF n < 10 THEN "0" \o ToString(n) ELSE ToString(n)
TimeString(hm) == Pad2(hm.hour) \o ":" \o Pad2(hm.minute)

SixSlots == {"11:00", "14:00", "17:00", "19:00", "21:00", "23:00"}

\* topics of the rows the scheduled run has attempted / of the rows whose
\* deliveryTime is t (a row's topic names the row in CronTables)
AttemptedTopics == {attempts[n].news_topic : n \in 1..Len(attempts)}
TopicsDueAt(t) ==
    {rows0[n].newsTopic : n \in {k \in 1..Len(rows0) : rows0[k].deliveryTime = t}}

\* a scheduled run attempts rows of its own slot only and, once its loop is
\* over, all of them; the interval job can start whenever no run is going
\* on, flagged row or not
SlotRuns ==
    /\ BatchJob => target_time \in SixSlots
    /\ (BatchJob /\ db_failure # "select") =>
          /\ AttemptedTopics \subseteq TopicsDueAt(target_time)
          /\ LoopOver => AttemptedTopics = TopicsDueAt(target_time)
    /\ pc = "idle" =>
          /\ ENABLED StartRun("send_immediate_email", None)
          /\ \A s \in SixSlots : ENABLED StartRun("send_emails_batch", s)

\* C24: each of the six daily cron jobs (11:00, 14:00, 17:00, 19:00, 21:00,
\* 23:00) calls the scheduled path with the "HH:MM" string of its own
\* firing time, the immediate check fires whether or not a row is flagged,
\* and so a row is attempted by the scheduled path exactly when its
\* deliveryTime is the string of the slot that fired.
C24_TriggerPairing ==
    /\ {JobTarget[j] : j \in DOMAIN CronTrigger} = SixSlots
    /\ []SlotRuns
    /\ [][\A hm \in WallClock, db \in {"ok", "raise"} :
             CronFire(hm, db) => target_time' = TimeString(hm)]_vars
    /\ \A s \in SixSlots :
          \E hm \in WallClock, j \in DOMAIN CronTrigger :
              TimeString(hm) = s /\ CronTrigger[j] = hm /\ JobTarget[j] = s

C24_Witness ==
    /\ BatchJob /\ LoopOver
    /\ target_time = "23:00"
    /\ Len(rows0) = 2
    /\ rows0[1].deliveryTime = "23:00" /\ rows0[2].deliveryTime = "11:30"
    /\ AttemptedTopics = {rows0[1].newsTopic}

(***************************************************************************)
(* C25                                                                     *)
(***************************************************************************)
ResetList == Range(all_schedule_ids_to_reset)

\* the rows now against the rows at selection time
ImmediateRowsFrame ==
    ImmediateJob =>
        /\ Len(topicAndSchedule) = Len(rows0)
        /\ \A n \in 1..Len(rows0) :
              LET row == topicAndSchedule[n]
                  old == rows0[n]
              IN  /\ row.news_id = old.news_id /\ row.user_id = old.user_id
                  /\ row.newsTopic = old.newsTopic
                  /\ row.deliveryTime = old.deliveryTime
                  /\ row.isScheduled = old.isScheduled
                  /\ row.isImmediate # old.isImmediate =>
                        /\ old.news_id \in ResetList
                        /\ row.isImmediate = FALSE
                  /\ old.news_id \notin ResetList => row = old

\* C25: a run of send_immediate_email changes nothing in the tables except
\* isImmediate, set to false, on rows of its reset-list: topic,
\* deliveryTime and isScheduled of every row, every field of a row that
\* was not selected or whose delivery failed, and the userSettings are
\* unchanged.
C25_ImmediateFrame ==
    /\ []ImmediateRowsFrame
    /\ [][ImmediateJob => userSettings' = userSettings]_vars

C25_Witness ==
    /\ ImmediateJob /\ pc = "done"
    /\ Len(rows0) = 2
    /\ rows0[1].isImmediate /\ rows0[2].isImmediate
    /\ ResetList = {1}
    /\ topicAndSchedule[1] = [rows0[1] EXCEPT !.isImmediate = FALSE]
    /\ topicAndSchedule[2] = rows0[2]
    /\ Len(attempts) = 2 /\ ~attempts[2].success

(***************************************************************************)
(* C26                                                                     *)
(***************************************************************************)
\* the errors list of a summary (the empty-set summary of
\* send_immediate_email has none)
ErrorsOf(summary) ==
    IF "errors" \in DOMAIN summary THEN summary.errors ELSE <<>>

\* C26: every summary either method returns is consistent with its run:
\* emails_sent + emails_failed is the number of pairs attempted, and errors
\* holds exactly emails_failed records, one per failed pair in processing
\* order, each with the topic and the error and, in the scheduled path,
\* the user email.
C26_SummaryConsistent ==
    pc = "done" =>
        LET failed == FailedAttempts
            errs   == ErrorsOf(result)
        IN  /\ result.emails_sent + result.emails_failed = Len(attempts)
            /\ Len(errs) = result.emails_failed
            /\ Len(errs) = Len(failed)
            /\ \A n \in 1..Len(errs) :
                  n <= Len(failed) => errs[n] = ErrorEntry(failed[n])

(***************************************************************************)
(* C27                                                                     *)
(***************************************************************************)
\* pairs of the run whose mail the Notifier accepted
Delivered == Count(attempts, LAMBDA a : a.success /\ NotifierCalls(a.calls) = 1)

\* C27: in every summary send_immediate_email returns, emails_sent is the
\* number of pairs the Notifier reported success for in that run, also
\* when the bulk flag update or its commit fails.
C27_ReportedSentIsDelivered ==
    (ImmediateJob /\ pc = "done") => result.emails_sent = Delivered

(***************************************************************************)
(* C28                                                                     *)
(***************************************************************************)
\* row n was updated through the API after the run selected it and asks
\* for an immediate digest
NewerRequest(n) ==
    /\ ImmediateJob
    /\ n <= Len(rows0)
    /\ rows0[n].isImmediate
    /\ topicAndSchedule[n] # rows0[n]
    /\ topicAndSchedule[n].isImmediate

\* C28: no immediate request is lost when the API is called during a run:
\* the bulk flag clear of a run that selected a row before an update of the
\* row does not cancel the newer request, so a later run delivers the row
\* as updated.
C28_NoLostRequest ==
    [][\A n \in 1..MaxRows :
          NewerRequest(n) => topicAndSchedule'[n].isImmediate]_vars

(***************************************************************************)
(* C29                                                                     *)
(***************************************************************************)
\* the article has a valid URL and scraped text of at least
\* MIN_ARTICLE_WORDS characters after stripping
Qualifies(a) ==
    /\ a.url = "str" /\ a.scrape = "ok"
    /\ a.stripped_len >= MIN_ARTICLE_WORDS

HasRow(table, id) == RowById(table, id) # 0
RowOf(table, id)  == table[RowById(table, id)]

\* the step modifies or deletes the row with primary key id
Touches(id) ==
    /\ HasRow(topicAndSchedule, id)
    /\ \/ ~HasRow(topicAndSchedule', id)
       \/ RowOf(topicAndSchedule', id) # RowOf(topicAndSchedule, id)

\* the step is a PUT or DELETE of row id called by user u
CalledBy(u, id) ==
    \/ \E d \in PartialRequests, db \in ApiDb :
          update_news_preferences(u, id, d, db)
    \/ \E db \in ApiDb : delete_news_preference(u, id, db)

\* a row is modified or deleted only by a call of its owner
OnlyOwnerTouches ==
    \A id \in 1..MaxRows :
        Touches(id) => CalledBy(RowOf(topicAndSchedule, id).user_id, id)

\* a call for a row of another user answers 403, a call for a row that does
\* not exist answers 404, and neither changes the tables
RefusedCallsChangeNothing ==
    \A u \in Users, id \in 1..MaxRows :
        /\ (~HasRow(topicAndSchedule, id) /\ out'.status # 404) =>
               ~CalledBy(u, id)
        /\ (/\ HasRow(topicAndSchedule, id)
            /\ RowOf(topicAndSchedule, id).user_id # u
            /\ out'.status # 403) => ~CalledBy(u, id)
        /\ (/\ ~HasRow(topicAndSchedule, id)
               \/ RowOf(topicAndSchedule, id).user_id # u
            /\ dbvars' # dbvars) => ~CalledBy(u, id)

\* C30: through the API a topicAndSchedule row is modified or deleted only
\* by the authenticated user whose id is the row's user_id; an update or
\* delete by another user returns 403, one for a row that does not exist
\* returns 404, and both leave the persisted state unchanged.
C30_Ownership ==
    /\ [][OnlyOwnerTouches]_vars
    /\ [][RefusedCallsChangeNothing]_vars

C30_Witness ==
    /\ out.fn = "update_news_preferences"
    /\ out.status = 403
    /\ Len(topicAndSchedule) = 2
    /\ topicAndSchedule[1].user_id # topicAndSchedule[2].user_id

====
